---- MODULE Spec2Model ----
(***************************************************************************)
(* PackTrack backend: the order cache with its single in-flight refresh    *)
(* (src/server.js, the cached variants), the database-backed sync          *)
(* (src/unnamed/part_000, part_001) and the carrier tracking functions     *)
(* (part_000, part_004, part_005, part_006), modelled as state machines of *)
(* the Node.js event loop, and the mapping of one upstream order           *)
(* (server.js, part_003).  One action is one run-to-completion slice of    *)
(* JavaScript: a request handler up to its first suspension, or the        *)
(* continuation that runs when an awaited network call or timer settles    *)
(* (together with the promise reactions that run in the same turn).        *)
(***************************************************************************)
EXTENDS Integers, Sequences, FiniteSets, TLC

\* ------------------------------------------------------------ constants
PAGE_SIZE == 50
MAX_PAGES == 5
CACHE_TTL_MS == 60000
CACHE_TTL_MS_V5 == 180000

\* --------------------------------------------------------------- bounds
\* number of HTTP requests that are open at the same time
MaxReq == 2
\* number of refresh closures that exist at the same time
MaxRefresh == 2
\* number of clock advances in one behaviour
MaxTicks == 2
\* length of the short (last) page the upstream may serve
ShortPage == 10
\* number of sync requests that are open at the same time
MaxSync == 2
\* number of tracking calls that are open at the same time
MaxTrack == 2

\* ----------------------------------------------------------- JS values
\* server.js:23: null, the value of inFlightOrders when no promise is stored
Null == 0
Undefined == "undefined"
NoTracking == "No Tracking"

\* JavaScript truthiness of a string-or-undefined value
Truthy(v) == v # Undefined /\ v # ""

\* a query parameter after parseInt(x, 10): <<>> is NaN (missing or
\* non-numeric), <<n>> is the integer n
NaN == <<>>

\* parseInt(x, 10) || d
ParseIntOr(q, d) == IF q = NaN \/ q[1] = 0 THEN d ELSE q[1]

VARIABLES
    variant,          \* which server file runs: "v8" (server.js 1-185), "v5" (server.js 332-531),
                      \* "v22" (part_000 199-446), "v19" (part_001), "v13" (part_000 1-197),
                      \* "part_004" or "part_006"
    SS_AUTH,          \* TRUE iff both fulfillment credentials are set (server.js:13)
    now,              \* Date.now()
    ticks,            \* how often the clock advanced (bounds the behaviour)
    ordersCache,      \* { fetchedAt, data }
    inFlightOrders,   \* Null or the promise of the running refresh
    task,             \* the refreshes: the async closures created by fetchRealOrders
    req,              \* the HTTP requests
    db,               \* TRUE iff initializeFirebase() returned a store (part_000:230)
    store,            \* the ids of the documents of collection 'orders'
    run,              \* the sync requests, each with its call of performSystemSync
    UPS_CREDS,        \* TRUE iff UPS_CLIENT_ID and UPS_CLIENT_SECRET are set (part_000 17-18)
    trackingCache,    \* Map: tracking number -> { data, timestamp }
    upsToken,         \* the cached OAuth token, or Null
    upsTokenExpiry,   \* the time up to which upsToken is used
    trk,              \* the calls of trackWithUPS / trackUPS
    order,            \* the upstream order handed to the mapping of fetchRealOrders
    mapped,           \* what the mapping made of order
    upsRes,           \* how the carrier call of a tracking function ended
    parsed,           \* the tracking record made of upsRes
    readReq,          \* a read request: its route, its query and what the handler pages
    readRes,          \* the body the read handler answers readReq with
    stored,           \* a shipment of a sync pass: its document in the store, its
                      \* tracking number and how its tracking call ends
    written           \* the document after the upsert of the pass

ordersVars == <<now, ticks, ordersCache, inFlightOrders, task, req>>
syncVars == <<db, store, run>>
trackVars == <<UPS_CREDS, trackingCache, upsToken, upsTokenExpiry, trk>>
cacheVars == <<ordersCache, inFlightOrders, task, req>>
mergeVars == <<order, mapped>>
parseVars == <<upsRes, parsed>>
readVars == <<readReq, readRes>>
upsertVars == <<stored, written>>
fnVars == <<mergeVars, parseVars, readVars, upsertVars>>
vars == <<variant, SS_AUTH, ordersVars, syncVars, trackVars, fnVars>>

Variants == {"v8", "v5"}
SyncVariants == {"v22", "v19"}
Reqs == 1..MaxReq
Tasks == 1..MaxRefresh

\* CACHE_TTL_MS of the running variant
CacheTtl == IF variant = "v5" THEN CACHE_TTL_MS_V5 ELSE CACHE_TTL_MS

\* ------------------------------------------------------------- upstream
\* A list of orders is held as the sequence of the orderIds of its elements.
\* What the element is follows from the list it stands in: the upstream
\* order UpstreamOrder(id) in a page and in allOrders, the mapped row
\* MapOrder(UpstreamOrder(id)) in the cache, in a promise's value and in
\* the data of GET /orders, its tracking row in the data of
\* GET /tracking.
\*
\* The upstream serves page p with n records; record i of page p is order
\* (p-1)*PAGE_SIZE + i.  The tracking shape of an order follows from its id,
\* so that every shape occurs on every page of at least 8 records:
\* shipments absent / empty / one entry without / one entry with a tracking
\* number, each with and without a top-level trackingNumber.
ShipmentsOf(id) ==
    CASE id % 4 = 0 -> <<>>
      [] id % 4 = 1 -> <<>>
      [] id % 4 = 2 -> <<[trackingNumber |-> Undefined]>>
      [] OTHER      -> <<[trackingNumber |-> "1ZSHIP"]>>

UpstreamOrder(id) ==
    [ orderId        |-> id,
      hasShipments   |-> (id % 4 # 0),
      shipments      |-> ShipmentsOf(id),
      trackingNumber |-> IF (id \div 4) % 2 = 0 THEN Undefined ELSE "1ZTOP" ]

UpstreamPage(p, n) == [i \in 1..n |-> (p - 1) * PAGE_SIZE + i]

PageLens == {0, ShortPage, PAGE_SIZE}

\* what one page call can end in: a 2xx with n orders, or a rejection
\* (status 429, or 500 standing for every other failure)
Outcomes ==
    [kind : {"ok"}, n : PageLens, status : {200}]
    \cup [kind : {"err"}, n : {0}, status : {429, 500}]

\* -------------------------------------------------------------- mapping
\* server.js 79-88 (v8): the tracking number of a mapped order
FinalTrackingV8(o) ==
    IF o.hasShipments /\ Len(o.shipments) > 0
    THEN IF Truthy(o.shipments[1].trackingNumber)
         THEN o.shipments[1].trackingNumber ELSE NoTracking
    ELSE IF Truthy(o.trackingNumber) THEN o.trackingNumber ELSE NoTracking

\* server.js 421-423 (v5)
FinalTrackingV5(o) ==
    IF o.hasShipments /\ Len(o.shipments) > 0 /\ Truthy(o.shipments[1].trackingNumber)
    THEN o.shipments[1].trackingNumber
    ELSE IF Truthy(o.trackingNumber) THEN o.trackingNumber ELSE NoTracking

\* server.js 79-104: allOrders.map(o => ...); the fields copied unchanged
\* from the upstream order are represented by orderId
MapOrderV8(o) ==
    [ orderId        |-> o.orderId,
      trackingNumber |-> FinalTrackingV8(o),
      upsStatus      |-> "Shipped",
      upsLocation    |-> "Carrier Facility",
      upsEta         |-> "Pending" ]

\* server.js 419-439
MapOrderV5(o) ==
    [ orderId        |-> o.orderId,
      trackingNumber |-> FinalTrackingV5(o),
      upsStatus      |-> "Shipped",
      upsLocation    |-> "Carrier Facility",
      upsEta         |-> "Pending" ]

\* the orders the upstream can serve within MAX_PAGES pages
OrderIds == 1..(MAX_PAGES * PAGE_SIZE)

\* the mapped rows of the two variants, by order id
RowsV8 == [id \in OrderIds |-> MapOrderV8(UpstreamOrder(id))]
RowsV5 == [id \in OrderIds |-> MapOrderV5(UpstreamOrder(id))]

\* the mapped row of order id
RowOf(id) == IF variant = "v5" THEN RowsV5[id] ELSE RowsV8[id]

\* allOrders.map(...): one row per order, at the position of its order; the
\* row RowOf(id) is held as id
MapOrders(all) == [i \in 1..Len(all) |-> all[i]]

\* ----------------------------------------------------------- pagination
Min(a, b) == IF a < b THEN a ELSE b
Max(a, b) == IF a > b THEN a ELSE b

\* Array.prototype.slice(start, end)
Slice(s, start, end) ==
    LET len == Len(s)
        k == IF start < 0 THEN Max(len + start, 0) ELSE Min(start, len)
        f == IF end < 0 THEN Max(len + end, 0) ELSE Min(end, len)
    IN IF f > k THEN SubSeq(s, k + 1, f) ELSE <<>>

\* Math.ceil(a / b) for a >= 0 and b # 0
CeilDiv(a, b) == IF b > 0 THEN (a + b - 1) \div b ELSE -(a \div (-b))

\* server.js 127 (v8), 468 (v5), part_003 137 (v10): limit
LimitOf(rows, q) ==
    IF variant = "v5"
    THEN ParseIntOr(q.limit, IF Len(rows) # 0 THEN Len(rows) ELSE 1)
    ELSE ParseIntOr(q.limit, 25)

\* server.js 126-131 (v8) and 467-471 (v5): the page of a list
Paginate(rows, q) ==
    LET page  == ParseIntOr(q.page, 1)
        limit == LimitOf(rows, q)
        start == (page - 1) * limit
        c     == CeilDiv(Len(rows), limit)
    IN [ data       |-> Slice(rows, start, start + limit),
         total      |-> Len(rows),
         page       |-> page,
         totalPages |-> IF variant = "v5" THEN Max(1, c) ELSE IF c = 0 THEN 1 ELSE c ]

\* server.js:146: o => o.trackingNumber !== "No Tracking"
IsTrackable(id) == RowOf(id).trackingNumber # NoTracking

\* server.js 145-157: orders.filter(..).map(..): the rows of GET /tracking,
\* one per trackable order, in the order of the list
Trackable(orders) ==
    LET t == SelectSeq(orders, IsTrackable) IN [i \in 1..Len(t) |-> t[i]]

NoBody == [data |-> <<>>, total |-> 0, page |-> 0, totalPages |-> 0]

\* what a handler answers once `await fetchRealOrders()` has given it `orders`
ResponseOf(kind, q, orders) ==
    CASE kind = "orders" ->
            [status |-> 200, success |-> TRUE, count |-> Len(orders),
             body |-> Paginate(orders, q)]
      [] kind = "tracking" ->
            [status |-> 200, success |-> TRUE, count |-> Len(Trackable(orders)),
             body |-> Paginate(Trackable(orders), q)]
      [] OTHER ->   \* POST /sync/orders, server.js 172-173
            IF Len(orders) > 0
            THEN [status |-> 200, success |-> TRUE, count |-> Len(orders), body |-> NoBody]
            ELSE [status |-> 500, success |-> FALSE, count |-> 0, body |-> NoBody]

\* ------------------------------------------------------------ the state
NoResp == [status |-> 0, success |-> FALSE, count |-> 0, body |-> NoBody]

Task0 ==
    [ pc        |-> "unused",   \* "unused", "fetching", "sleeping", "done"
      page      |-> 0,          \* let page
      allOrders |-> <<>>,       \* const allOrders
      result    |-> <<>>,       \* what the promise resolved to
      calls     |-> <<>>,       \* history: the page numbers requested upstream
      got       |-> <<>> ]      \* history: the size of each page served, -1 for a rejection

Req0 ==
    [ kind         |-> "none",   \* "orders", "tracking", "sync"
      pc           |-> "idle",   \* "idle", "await", "done"
      q            |-> [page |-> NaN, limit |-> NaN],   \* req.query, set when the handler reads it
      awaits       |-> Null,     \* the promise the handler awaits
      orders       |-> <<>>,     \* what `await fetchRealOrders()` gave
      resp         |-> NoResp,
      started      |-> Null,     \* history: the refresh this request started
      sawFetchedAt |-> 0,        \* history: ordersCache.fetchedAt read by fetchRealOrders
      sawInFlight  |-> Null,     \* history: inFlightOrders when the request arrived
      fetchSince   |-> FALSE,    \* history: a page call was issued since the request arrived
      cacheWas     |-> [fetchedAt |-> 0, data |-> <<>>] ]   \* history: ordersCache when the request arrived

\* the first unused refresh, or Null when the bound is reached
FreeTask ==
    IF \E i \in Tasks : task[i].pc = "unused"
    THEN CHOOSE i \in Tasks : task[i].pc = "unused" /\ \A j \in Tasks : j < i => task[j].pc # "unused"
    ELSE Null

Queries == {[page |-> NaN, limit |-> NaN], [page |-> <<2>>, limit |-> <<50>>]}

\* the order cache and its refreshes after the module was loaded
OrdersInit ==
    /\ now = 1
    /\ ticks = 0
    /\ ordersCache = [fetchedAt |-> 0, data |-> <<>>]
    /\ inFlightOrders = Null
    /\ task = [i \in Tasks |-> Task0]
    /\ req = [r \in Reqs |-> Req0]

\* ------------------------------------------------------ fetchRealOrders
\* the comparison of the age with the time to live, turned round
CacheFreshFlipped(cache, t) == cache.fetchedAt # 0 /\ t - cache.fetchedAt > CacheTtl

\* server.js:44 / 383: the cache is fresh
CacheFresh(cache, t) == cache.fetchedAt # 0 /\ t - cache.fetchedAt < CacheTtl

\* the in-flight marker is never consulted
NoInFlight == FALSE

\* server.js:48 / 388: a refresh is in flight
HasInFlight == inFlightOrders # Null

\* the loop test never fails
LoopForever(page) == TRUE

\* server.js:61 / 403: while (page <= MAX_PAGES)
LoopContinues(page) == page <= MAX_PAGES

\* the page replaces the accumulated list instead of being appended to it
AccumulateReplace(all, pageOrders) == pageOrders

\* server.js:71 / 409: allOrders.push(...pageOrders)
Accumulate(all, pageOrders) == all \o pageOrders

\* server.js:72 / 410: if (pageOrders.length < PAGE_SIZE) break
IsLastPage(n) == n < PAGE_SIZE

\* server.js 109-111 (v8) and 444-451 (v5): what the catch block returns
CatchResult(status) ==
    IF variant = "v5" /\ status = 429 /\ Len(ordersCache.data) > 0
    THEN ordersCache.data
    ELSE <<>>

\* the query a handler of this kind can read (POST /sync/orders reads none)
QueryFor(kind, q) == IF kind = "sync" THEN [page |-> NaN, limit |-> NaN] ELSE q

\* the handler of request rq continues with `orders`, reads its query q and answers
Answered(rq, q, orders) ==
    [rq EXCEPT !.pc = "done", !.awaits = Null, !.orders = orders,
               !.q = QueryFor(rq.kind, q),
               !.resp = ResponseOf(rq.kind, QueryFor(rq.kind, q), orders)]

\* the queries of the requests that await refresh id
QueriesOfWaiters(id) ==
    { qs \in [Reqs -> Queries] :
        \A r \in Reqs : ~(req[r].pc = "await" /\ req[r].awaits = id /\ req[r].kind # "sync")
                            => qs[r] = [page |-> NaN, limit |-> NaN] }

\* the callers that found the refresh in flight are given the old cache
\* instead of the promise
SettleStale(id, qs, result) ==
    [r \in Reqs |-> IF req[r].pc = "await" /\ req[r].awaits = id
                    THEN Answered(req[r], qs[r],
                                  IF req[r].started = id THEN result ELSE ordersCache.data)
                    ELSE req[r]]

\* server.js 48 and 117: the promise of refresh id resolves: every handler
\* awaiting it continues with its value (qs[r] is the query of request r)
Settle(id, qs, result) ==
    [r \in Reqs |-> IF req[r].pc = "await" /\ req[r].awaits = id
                    THEN Answered(req[r], qs[r], result) ELSE req[r]]

\* an upstream page call is issued: every open request has seen one since
PageCallSeen(rq) ==
    [r \in Reqs |-> IF rq[r].pc = "await" THEN [rq[r] EXCEPT !.fetchSince = TRUE] ELSE rq[r]]

\* server.js 112-114: finally { inFlightOrders = null }, then the promise resolves
End(id, t, result) ==
    /\ inFlightOrders' = Null
    /\ task' = [task EXCEPT ![id] = [t EXCEPT !.pc = "done", !.allOrders = <<>>, !.result = result]]
    /\ \E qs \in QueriesOfWaiters(id) : req' = Settle(id, qs, result)

\* server.js 77-107: the loop is left normally: map, replace the cache, return mapped
Finish(id, t, all) ==
    /\ ordersCache' = [fetchedAt |-> now, data |-> MapOrders(all)]
    /\ End(id, t, MapOrders(all))

\* server.js 109-111: a page call was rejected
Fail(id, t, status) ==
    /\ UNCHANGED ordersCache
    /\ End(id, t, CatchResult(status))

\* server.js 42-118: fetchRealOrders() called by the handler of request r,
\* which has just read `cache` as ordersCache
fetchRealOrders(r, kind, q, cache) ==
    LET base == [req[r] EXCEPT !.kind = kind,
                               !.sawFetchedAt = cache.fetchedAt,
                               !.sawInFlight = inFlightOrders,
                               !.cacheWas = ordersCache]
    IN
    /\ ordersCache' = cache
    /\ IF CacheFresh(cache, now)
       THEN /\ req' = [req EXCEPT ![r] = Answered(base, q, cache.data)]
            /\ UNCHANGED <<inFlightOrders, task>>
       ELSE IF HasInFlight
       THEN /\ req' = [req EXCEPT ![r] =
                          IF task[inFlightOrders].pc = "done"
                          THEN Answered(base, q, task[inFlightOrders].result)
                          ELSE [base EXCEPT !.pc = "await", !.awaits = inFlightOrders]]
            /\ UNCHANGED <<inFlightOrders, task>>
       ELSE /\ FreeTask # Null
            /\ inFlightOrders' = FreeTask
            /\ IF ~SS_AUTH
               THEN \* server.js 51-54: return [] before the try block
                    /\ task' = [task EXCEPT ![FreeTask] = [Task0 EXCEPT !.pc = "done"]]
                    /\ req' = [req EXCEPT ![r] = Answered([base EXCEPT !.started = FreeTask], q, <<>>)]
               ELSE \* server.js 56-62: the first page call is issued
                    /\ task' = [task EXCEPT ![FreeTask] =
                                   [Task0 EXCEPT !.pc = "fetching", !.page = 1, !.calls = <<1>>]]
                    /\ req' = PageCallSeen([req EXCEPT ![r] =
                                  [base EXCEPT !.pc = "await", !.awaits = FreeTask,
                                               !.started = FreeTask]])

\* an answered request and a settled promise that nothing refers to any more
\* are dropped before anything else happens
Reapable ==
    \/ \E r \in Reqs : req[r].pc = "done"
    \/ \E i \in Tasks : task[i].pc = "done" /\ inFlightOrders # i

\* a request takes the first free slot
CanArrive(r) ==
    /\ variant \in Variants
    /\ ~Reapable
    /\ req[r].pc = "idle"
    /\ \A s \in Reqs : s < r => req[s].pc # "idle"

\* ------------------------------------------------------------- handlers
\* server.js 124-140: GET /orders
GetOrders(r, q) ==
    /\ CanArrive(r)
    /\ fetchRealOrders(r, "orders", q, ordersCache)
    /\ UNCHANGED <<trackVars, syncVars, variant, SS_AUTH, fnVars, now, ticks>>

\* server.js 143-166: GET /tracking
GetTracking(r, q) ==
    /\ CanArrive(r)
    /\ fetchRealOrders(r, "tracking", q, ordersCache)
    /\ UNCHANGED <<trackVars, syncVars, variant, SS_AUTH, fnVars, now, ticks>>

\* server.js:170: v8 empties the cache before it calls fetchRealOrders; v5
\* (server.js:514) does not
CacheSeenBySync == IF variant = "v8" THEN [fetchedAt |-> 0, data |-> <<>>] ELSE ordersCache

\* server.js 169-174 / 513-520: POST /sync/orders
SyncOrders(r) ==
    /\ CanArrive(r)
    /\ fetchRealOrders(r, "sync", [page |-> NaN, limit |-> NaN], CacheSeenBySync)
    /\ UNCHANGED <<trackVars, syncVars, variant, SS_AUTH, fnVars, now, ticks>>

\* server.js 62-75: the page call of refresh id settles and the closure runs on
SSRespond(id, out) ==
    /\ ~Reapable
    /\ task[id].pc = "fetching"
    /\ LET t == [task[id] EXCEPT !.got = Append(@, IF out.kind = "ok" THEN out.n ELSE -1)]
           all == Accumulate(t.allOrders, UpstreamPage(t.page, out.n))
       IN IF out.kind = "err" THEN Fail(id, t, out.status)
          ELSE IF out.n = 0 THEN Finish(id, t, t.allOrders)
          ELSE IF IsLastPage(out.n) THEN Finish(id, t, all)
          ELSE /\ task' = [task EXCEPT ![id] =
                              [t EXCEPT !.allOrders = all, !.page = @ + 1, !.pc = "sleeping"]]
               /\ UNCHANGED <<ordersCache, inFlightOrders, req>>
    /\ UNCHANGED <<trackVars, syncVars, variant, SS_AUTH, fnVars, now, ticks>>

\* server.js 61 and 74: sleep(PAGE_DELAY_MS) is over and the loop test runs
Wake(id) ==
    /\ ~Reapable
    /\ task[id].pc = "sleeping"
    /\ IF LoopContinues(task[id].page)
       THEN /\ task' = [task EXCEPT ![id] =
                           [@ EXCEPT !.pc = "fetching", !.calls = Append(@, task[id].page)]]
            /\ req' = PageCallSeen(req)
            /\ UNCHANGED <<ordersCache, inFlightOrders>>
       ELSE Finish(id, task[id], task[id].allOrders)
    /\ UNCHANGED <<trackVars, syncVars, variant, SS_AUTH, fnVars, now, ticks>>

\* the clock advances by half the cache's time to live
Tick ==
    /\ variant \in Variants
    /\ ~Reapable
    /\ ticks < MaxTicks
    /\ ticks' = ticks + 1
    /\ now' = now + CacheTtl \div 2
    /\ UNCHANGED <<trackVars, syncVars, variant, SS_AUTH, fnVars, ordersCache, inFlightOrders, task, req>>

\* the answered requests and the settled, unreferenced promises are dropped
Reap ==
    /\ Reapable
    /\ req' = [r \in Reqs |-> IF req[r].pc = "done" THEN Req0 ELSE req[r]]
    /\ task' = [i \in Tasks |-> IF task[i].pc = "done" /\ inFlightOrders # i
                                THEN Task0 ELSE task[i]]
    /\ UNCHANGED <<trackVars, syncVars, variant, SS_AUTH, fnVars, now, ticks, ordersCache, inFlightOrders>>

NextOrders ==
    \/ \E r \in Reqs, q \in Queries : GetOrders(r, q)
    \/ \E r \in Reqs, q \in Queries : GetTracking(r, q)
    \/ \E r \in Reqs : SyncOrders(r)
    \/ \E id \in Tasks, out \in Outcomes : SSRespond(id, out)
    \/ \E id \in Tasks : Wake(id)
    \/ Tick
    \/ Reap

\* =================================================== the database sync
\* part_000 342 and 376: the page size of performSystemSync is written out
SYNC_PAGE_SIZE == 50

\* part_000:243: const MAX_PAGES = 5 of the multi-page sync
SYNC_MAX_PAGES == 5

Runs == 1..MaxSync

\* the shipments of page p of n records, by orderId
ShipmentPage(p, n) == {(p - 1) * SYNC_PAGE_SIZE + i : i \in 1..n}

\* what a page call of the sync can end in
SyncOutcomes == {o \in Outcomes : o.status # 429}

NoSyncResp == [status |-> 0, success |-> FALSE, count |-> 0]

Run0 ==
    [ kind        |-> "none",   \* "system" (POST /sync/system), "orders" (POST /sync/orders)
      pc          |-> "idle",   \* "idle", "fetching", "committing", "sleeping", "live", "done"
      page        |-> 0,        \* let page
      totalSynced |-> 0,        \* let totalSynced
      n           |-> 0,        \* shipments.length of the page being processed
      calls       |-> <<>>,     \* history: the page numbers requested upstream
      got         |-> <<>>,     \* history: the size of each page served, -1 for a rejection
      commitFailed |-> FALSE,   \* history: batch.commit() was rejected
      resp        |-> NoSyncResp ]

\* the store and the sync requests after the module was loaded
SyncInit ==
    /\ store = {}
    /\ run = [r \in Runs |-> Run0]

\* performSystemSync is in progress for request r
SyncRunning(r) == run[r].pc \in {"fetching", "committing", "sleeping"}

\* an answered sync request is dropped before anything else happens
SyncReapable == \E r \in Runs : run[r].pc = "done"

SyncCanArrive(r) ==
    /\ variant \in SyncVariants
    /\ ~SyncReapable
    /\ run[r].pc = "idle"
    /\ \A s \in Runs : s < r => run[s].pc # "idle"

\* part_000:338: while (page <= MAX_PAGES)
SyncLoopContinues(page) == page <= SYNC_MAX_PAGES

\* part_000:376: if (shipments.length < 50) break
SyncIsLastPage(n) == n < SYNC_PAGE_SIZE

\* part_000 330-344 / part_001 98-105: performSystemSync() up to its first page call
StartSync(rn) ==
    [rn EXCEPT !.pc = "fetching", !.page = 1, !.calls = <<1>>]

\* part_000 387-388, 421-422 and 429-430: performSystemSync returns
\* totalSynced and the handler answers with it
SyncReturns(rn) ==
    [rn EXCEPT !.pc = "done",
               !.resp = [status |-> 200, success |-> TRUE, count |-> rn.totalSynced]]

\* part_001 199-202 and 210-212: performSystemSync threw and the handler answers 500
SyncThrows(rn) ==
    [rn EXCEPT !.pc = "done", !.resp = [status |-> 500, success |-> FALSE, count |-> 0]]

\* part_000 418-424 / part_001 195-203: POST /sync/system
PostSyncSystem(r) ==
    /\ SyncCanArrive(r)
    /\ LET rn == [run[r] EXCEPT !.kind = "system"]
       IN run' = [run EXCEPT ![r] =
                     IF variant = "v22" /\ ~db
                     THEN [rn EXCEPT !.pc = "done",
                                     !.resp = [status |-> 503, success |-> FALSE, count |-> 0]]
                     ELSE StartSync(rn)]
    /\ UNCHANGED <<trackVars, ordersVars, variant, SS_AUTH, fnVars, db, store>>

\* part_000 426-435 / part_001 206-213: POST /sync/orders; without a store
\* v22 falls back to fetchLiveOrders(1) (part_000 299-327)
PostSyncOrders(r) ==
    /\ SyncCanArrive(r)
    /\ LET rn == [run[r] EXCEPT !.kind = "orders"]
       IN run' = [run EXCEPT ![r] =
                     IF variant = "v22" /\ ~db
                     THEN IF ~SS_AUTH
                          THEN [rn EXCEPT !.pc = "done",
                                          !.resp = [status |-> 200, success |-> TRUE, count |-> 0]]
                          ELSE [rn EXCEPT !.pc = "live"]
                     ELSE StartSync(rn)]
    /\ UNCHANGED <<trackVars, ordersVars, variant, SS_AUTH, fnVars, db, store>>

\* part_000:413: live.data.filter(o => o.trackingNumber !== "No Tracking"),
\* where trackingNumber is s.trackingNumber || "No Tracking" (part_000:308)
LiveTrackable(n) == {i \in 1..n : Truthy(UpstreamOrder(i).trackingNumber)}

\* the number of rows the handler answers with when fetchLiveOrders(1) gave n
LiveCount(kind, n) == IF kind = "getTracking" THEN Cardinality(LiveTrackable(n)) ELSE n

\* part_000 301-326: the page call of fetchLiveOrders settles
LiveResponse(r, out) ==
    /\ ~SyncReapable
    /\ run[r].pc = "live"
    /\ run' = [run EXCEPT ![r] =
                  [@ EXCEPT !.pc = "done",
                            !.resp = [status |-> 200, success |-> TRUE,
                                      count |-> LiveCount(run[r].kind,
                                                          IF out.kind = "ok" THEN out.n ELSE 0)]]]
    /\ UNCHANGED <<trackVars, ordersVars, variant, SS_AUTH, fnVars, db, store>>

\* part_000 341-370 / part_001 102-146: the page call of the sync settles;
\* without credentials the upstream rejects the call.  A page with shipments
\* is tracked (trackWithUPS never rejects and changes nothing of the sync)
\* and its batch is filled; "committing" lasts from here to the settling of
\* batch.commit()
SyncPageResponse(r, out) ==
    /\ ~SyncReapable
    /\ run[r].pc = "fetching"
    /\ SS_AUTH \/ out.kind = "err"
    /\ LET rn == [run[r] EXCEPT !.got = Append(@, IF out.kind = "ok" THEN out.n ELSE -1)]
       IN run' = [run EXCEPT ![r] =
                     IF out.kind = "err"
                     THEN IF variant = "v22" THEN SyncReturns(rn) ELSE SyncThrows(rn)
                     ELSE IF out.n = 0 /\ variant = "v22"
                     THEN SyncReturns(rn)
                     ELSE [rn EXCEPT !.pc = "committing", !.n = out.n]]
    /\ UNCHANGED <<trackVars, ordersVars, variant, SS_AUTH, fnVars, db, store>>

\* part_000 372-385 / part_001 149-151: batch.commit() settles
CommitDone(r, ok) ==
    /\ ~SyncReapable
    /\ run[r].pc = "committing"
    /\ LET rn == run[r]
           counted == [rn EXCEPT !.totalSynced = @ + rn.n]
           failed == [rn EXCEPT !.commitFailed = TRUE]
       IN IF ~ok
          THEN /\ run' = [run EXCEPT ![r] =
                             IF variant = "v22" THEN SyncReturns(failed) ELSE SyncThrows(failed)]
               /\ UNCHANGED store
          ELSE /\ store' = store \cup ShipmentPage(rn.page, rn.n)
               /\ run' = [run EXCEPT ![r] =
                             IF variant = "v19" \/ SyncIsLastPage(rn.n)
                             THEN SyncReturns(counted)
                             ELSE [counted EXCEPT !.page = @ + 1, !.pc = "sleeping"]]
    /\ UNCHANGED <<trackVars, ordersVars, variant, SS_AUTH, fnVars, db>>

\* part_000 338 and 380: the pause is over and the loop test runs
SyncWake(r) ==
    /\ ~SyncReapable
    /\ run[r].pc = "sleeping"
    /\ run' = [run EXCEPT ![r] =
                  IF SyncLoopContinues(run[r].page)
                  THEN [@ EXCEPT !.pc = "fetching", !.calls = Append(@, run[r].page)]
                  ELSE SyncReturns(run[r])]
    /\ UNCHANGED <<trackVars, ordersVars, variant, SS_AUTH, fnVars, db, store>>

\* the answered sync requests are dropped
SyncReap ==
    /\ SyncReapable
    /\ run' = [r \in Runs |-> IF run[r].pc = "done" THEN Run0 ELSE run[r]]
    /\ UNCHANGED <<trackVars, ordersVars, variant, SS_AUTH, fnVars, db, store>>

\* ----------------------------------------- the reads of the stored orders
\* GET /orders and GET /tracking of v22 (part_000 392-416) and of v19
\* (part_001 157-192); a read is held like a sync request, with kind
\* "getOrders" or "getTracking", pc "reading" while the store read is
\* pending, and success TRUE iff it was answered with data
ReadKinds == {"getOrders", "getTracking"}

\* part_000:397 and 410: the rows of the snapshot the handler looks at
StoredRows(kind) ==
    IF kind = "getTracking"
    THEN {id \in store : Truthy(UpstreamOrder(id).trackingNumber)}
    ELSE store

\* part_000 400-401 and 414-416: the handler goes on to fetchLiveOrders(1),
\* which returns at once without credentials (part_000:300)
LiveFallback(rn) ==
    IF ~SS_AUTH
    THEN [rn EXCEPT !.pc = "done", !.resp = [status |-> 200, success |-> TRUE, count |-> 0]]
    ELSE [rn EXCEPT !.pc = "live"]

\* part_000 392-394 / part_001 157-159: GET /orders or GET /tracking arrives
GetRead(r, kind) ==
    /\ SyncCanArrive(r)
    /\ LET rn == [run[r] EXCEPT !.kind = kind]
       IN run' = [run EXCEPT ![r] =
                     IF variant = "v22" /\ ~db THEN LiveFallback(rn)
                     ELSE [rn EXCEPT !.pc = "reading"]]
    /\ UNCHANGED <<trackVars, ordersVars, variant, SS_AUTH, fnVars, db, store>>

\* part_000 395-399 and 406-412 / part_001 159-177 and 181-191: the store
\* read settles; a rejection is recorded as -1 in got
StoreReadResponse(r, ok) ==
    /\ ~SyncReapable
    /\ run[r].pc = "reading"
    /\ LET rows == Cardinality(StoredRows(run[r].kind))
           rn   == [run[r] EXCEPT !.got = Append(@, IF ok THEN rows ELSE -1)]
           data == [rn EXCEPT !.pc = "done",
                              !.resp = [status |-> 200, success |-> TRUE, count |-> rows]]
       IN run' = [run EXCEPT ![r] =
                     IF variant = "v19"
                     THEN IF ok THEN data
                          ELSE [rn EXCEPT !.pc = "done",
                                          !.resp = [status |-> 500, success |-> FALSE,
                                                    count |-> 0]]
                     ELSE IF ok /\ rows > 0 THEN data ELSE LiveFallback(rn)]
    /\ UNCHANGED <<trackVars, ordersVars, variant, SS_AUTH, fnVars, db, store>>

NextSync ==
    \/ \E r \in Runs : PostSyncSystem(r)
    \/ \E r \in Runs : PostSyncOrders(r)
    \/ \E r \in Runs, out \in SyncOutcomes : LiveResponse(r, out)
    \/ \E r \in Runs, out \in SyncOutcomes : SyncPageResponse(r, out)
    \/ \E r \in Runs, ok \in BOOLEAN : CommitDone(r, ok)
    \/ \E r \in Runs : SyncWake(r)
    \/ SyncReap

\* ================================================ the carrier tracking
\* trackWithUPS of "v13" (part_000 60-101) and "v22" (part_000 265-294),
\* trackUPS of "part_004" (61-115) and "part_006" (74-127), each with the
\* getUPSToken of its file, and the POST /track handler of "part_005"
\* (113-157), which is itself the tracking call.  A text is held as the
\* sequence of its pieces, a tracking number and a date as the sequence of
\* their characters.
TrackVariants == {"v13", "v22", "part_004", "part_005", "part_006"}

\* part_000:22
TRACKING_CACHE_MS == 15 * 60 * 1000
\* part_004:41
CACHE_DURATION_MS == 30 * 60 * 1000
\* part_006:72
CACHE_MS == 30 * 60 * 1000
\* part_000 51 and 260: the token is used for 3500 s
TOKEN_LIFE_MS == 3500 * 1000
\* part_006:60
TOKEN_LIFE_MS_P6 == 50 * 60 * 1000

Calls == 1..MaxTrack

\* the tracking numbers that are asked for
Nums ==
    { <<"1", "Z", "A">>, <<"9", "4", "X">> }

\* the text "No Tracking" where a tracking number is expected
NoTrackingNum == <<NoTracking>>

\* the keys the tracking cache can be asked for
Keys == Nums \cup {NoTrackingNum}

\* String.prototype.startsWith
StartsWith(str, prefix) ==
    Len(str) >= Len(prefix) /\ SubSeq(str, 1, Len(prefix)) = prefix

\* the variant keeps a tracking cache / a token cache
HasTrackingCache == variant \notin {"v22", "part_005"}
HasTokenCache == variant \notin {"part_004", "part_005"}

\* the time to live of a tracking-cache entry
TrackTtl ==
    CASE variant = "v13"      -> TRACKING_CACHE_MS
      [] variant = "part_004" -> CACHE_DURATION_MS
      [] OTHER                -> CACHE_MS

\* the time a fetched token is used
TokenLife == IF variant = "part_006" THEN TOKEN_LIFE_MS_P6 ELSE TOKEN_LIFE_MS

\* what the carrier's tracking endpoint can answer: the fields the code
\* reads of package[0] and of its activity[0]
Bodies ==
    { [desc |-> "Delivered", city |-> "Reno", state |-> "NV",
       date |-> <<"2", "0", "2", "4", "0", "1", "1", "5">>, pkgDate |-> Undefined],
      [desc |-> Undefined, city |-> Undefined, state |-> Undefined,
       date |-> Undefined, pkgDate |-> <<"2", "0", "2", "4", "0", "2", "0", "9">>] }

NoBodyUPS ==
    [desc |-> Undefined, city |-> Undefined, state |-> Undefined,
     date |-> Undefined, pkgDate |-> Undefined]

\* how a carrier call can end: a 2xx with a body, or a rejection
CarrierOutcomes ==
    [kind : {"ok"}, body : Bodies, status : {200}]
    \cup [kind : {"err"}, body : {NoBodyUPS}, status : {401, 500}]

\* part_000:85 / 285-289, part_004:88: substr(4,2)/substr(6,2)/substr(0,4) of an 8-character date
FormatDate(d) ==
    <<d[5], d[6], "/", d[7], d[8], "/", d[1], d[2], d[3], d[4]>>

IsDate8(d) == d # Undefined /\ Len(d) = 8

\* [a, b].filter(Boolean).join(", ")
JoinFiltered(a, b) ==
    IF Truthy(a) /\ Truthy(b) THEN <<a, ", ", b>>
    ELSE IF Truthy(a) THEN <<a>>
    ELSE IF Truthy(b) THEN <<b>>
    ELSE <<>>

\* `${city}, ${stateProvince}`
CityState(b) == <<b.city, ", ", b.state>>

\* the characters of the status texts
TextOf(status) ==
    CASE status = "Delivered"        -> <<"D", "e", "l", "i", "v", "e", "r", "e", "d">>
      [] status = "DELIVERED"        -> <<"D", "E", "L", "I", "V", "E", "R", "E", "D">>
      [] status = "Out For Delivery" -> <<"O", "u", "t", " ", "F", "o", "r", " ",
                                          "D", "e", "l", "i", "v", "e", "r", "y">>
      [] status = "In Transit"       -> <<"I", "n", " ", "T", "r", "a", "n", "s", "i", "t">>
      [] status = "Unknown"          -> <<"U", "n", "k", "n", "o", "w", "n">>
      [] status = "Pending Update"   -> <<"P", "e", "n", "d", "i", "n", "g", " ",
                                          "U", "p", "d", "a", "t", "e">>
      [] status = "UPS Auth Error"   -> <<"U", "P", "S", " ", "A", "u", "t", "h", " ",
                                          "E", "r", "r", "o", "r">>
      [] status = "Label Created"    -> <<"L", "a", "b", "e", "l", " ",
                                          "C", "r", "e", "a", "t", "e", "d">>
      [] status = "Shipped"          -> <<"S", "h", "i", "p", "p", "e", "d">>
      [] status = "No Tracking"      -> <<"N", "o", " ", "T", "r", "a", "c", "k", "i", "n", "g">>
      [] OTHER                       -> <<>>

\* String.prototype.toLowerCase, character by character
LowerChar(ch) ==
    CASE ch = "A" -> "a" [] ch = "C" -> "c" [] ch = "D" -> "d" [] ch = "E" -> "e"
      [] ch = "F" -> "f" [] ch = "I" -> "i" [] ch = "L" -> "l" [] ch = "N" -> "n"
      [] ch = "O" -> "o" [] ch = "P" -> "p" [] ch = "R" -> "r" [] ch = "S" -> "s"
      [] ch = "T" -> "t" [] ch = "U" -> "u" [] ch = "V" -> "v" [] OTHER -> ch

ToLowerCase(text) == [i \in 1..Len(text) |-> LowerChar(text[i])]

\* String.prototype.includes
Includes(text, part) ==
    \E i \in 0..(Len(text) - Len(part)) : SubSeq(text, i + 1, i + Len(part)) = part

IsDeliveredAlways(status) == TRUE

\* part_004:95, part_005:73, part_006:103: status.toLowerCase().includes("delivered")
IsDelivered(status) ==
    Includes(ToLowerCase(TextOf(status)), <<"d", "e", "l", "i", "v", "e", "r", "e", "d">>)

\* a tracking record; delivered is TRUE iff the record has a field delivered
\* that is true, error is TRUE iff it has a field error (isError) that is set
Rec(status, location, eta, delivered, error) ==
    [status |-> status, location |-> location, eta |-> eta,
     delivered |-> delivered, error |-> error]

\* part_005:70: `${city || ""} ${stateProvince || ""} ${country || ""}`.trim()
\* for an address without country
JoinTrimmed(a, b) ==
    IF Truthy(a) /\ Truthy(b) THEN <<a, " ", b>>
    ELSE IF Truthy(a) THEN <<a>>
    ELSE IF Truthy(b) THEN <<b>>
    ELSE <<>>

\* part_000:66 and 266/292, part_004 105-113, part_005 146-155,
\* part_006 118-125: the record returned in place of carrier data
Fallback ==
    CASE variant = "v13"      -> Rec("Shipped", <<"ShipStation Label">>, <<"Pending">>, FALSE, FALSE)
      [] variant \in {"v22", "v19"} ->
            Rec("Label Created", <<"Pre-Transit">>, <<"Pending Scan">>, FALSE, FALSE)
      [] variant = "part_005" -> Rec("Unknown", <<>>, <<"--">>, FALSE, TRUE)
      [] OTHER                -> Rec("Pending Update", <<>>, <<"--">>, FALSE, TRUE)

\* part_006:83: the record returned when no token could be had
AuthErrorRec == Rec("UPS Auth Error", <<Undefined>>, <<Undefined>>, FALSE, TRUE)

\* part_000 83-93 and 277-290, part_004 85-98, part_005 54-91,
\* part_006 98-113: the record made of the carrier's answer
ParseUPS(b) ==
    CASE variant = "v13" ->
            Rec(IF Truthy(b.desc) THEN b.desc ELSE "In Transit",
                IF Truthy(b.city) THEN CityState(b) ELSE <<"In Transit">>,
                IF IsDate8(b.date) THEN FormatDate(b.date) ELSE <<"Pending">>,
                FALSE, FALSE)
      [] variant \in {"v22", "v19"} ->
            LET rawDate == IF b.date # Undefined THEN b.date ELSE b.pkgDate
            IN Rec(IF Truthy(b.desc) THEN b.desc ELSE "Label Created",
                   IF Truthy(b.city) THEN CityState(b) ELSE <<"Pre-Transit">>,
                   IF IsDate8(rawDate) THEN FormatDate(rawDate) ELSE <<"Pending Scan">>,
                   FALSE, FALSE)
      [] variant = "part_004" ->
            LET status == IF Truthy(b.desc) THEN b.desc ELSE "Unknown"
            IN Rec(status,
                   JoinFiltered(b.city, b.state),
                   IF IsDate8(b.date) THEN FormatDate(b.date) ELSE <<"--">>,
                   IsDelivered(status), FALSE)
      [] variant = "part_005" ->
            LET status == IF Truthy(b.desc) THEN b.desc ELSE "Unknown"
            IN Rec(status,
                   JoinTrimmed(b.city, b.state),
                   IF IsDate8(b.date) THEN FormatDate(b.date) ELSE <<"--">>,
                   IsDelivered(status), FALSE)
      [] OTHER ->
            Rec(IF Truthy(b.desc) THEN b.desc ELSE "Unknown",
                JoinFiltered(b.city, b.state),
                IF b.date # Undefined THEN b.date ELSE <<"--">>,
                IsDelivered(IF Truthy(b.desc) THEN b.desc ELSE ""), FALSE)

\* an entry of the tracking cache; present is FALSE for a key the Map does not
\* hold, and data and timestamp of such a key are those of the last entry it
\* held (history that no code reads)
NoEntry == [present |-> FALSE, data |-> Rec("", <<>>, <<>>, FALSE, FALSE), timestamp |-> 0]

Trk0 ==
    [ pc     |-> "idle",     \* "idle", "token", "carrier", "done"
      num    |-> <<>>,       \* trackingNumber
      token  |-> Null,       \* the token the carrier call carries
      result |-> Rec("", <<>>, <<>>, FALSE, FALSE),
      http   |-> 0,          \* part_005: the status of the handler's answer
      net    |-> <<>>,       \* history: the network calls this call issued
      fresh  |-> FALSE,      \* history: the Map held an unexpired entry for num at the call
      held   |-> Null ]      \* history: the unexpired token that was held when getUPSToken was called

TrackInit ==
    /\ trackingCache = [n \in Keys |-> NoEntry]
    /\ upsToken = Null
    /\ upsTokenExpiry = 0
    /\ trk = [c \in Calls |-> Trk0]

\* part_000:67 / 266: trackingNumber.startsWith('1Z')
IsCarrierNumber(num) == StartsWith(num, <<"1", "Z">>)

\* trackWithUPS tests the prefix, trackUPS does not
HasPrefixCheck == variant \in {"v13", "v22", "v19"}

\* the Map holds an entry for num that is younger than the time to live
FreshEntry(num) ==
    /\ HasTrackingCache
    /\ trackingCache[num].present
    /\ now - trackingCache[num].timestamp < TrackTtl

\* the token that is held and whose recorded expiry lies ahead, if any
TokenHeld == IF upsToken # Null /\ now < upsTokenExpiry THEN upsToken ELSE Null

TrackCacheMiss(num) == FALSE

\* part_000 61-64, part_004 63-68, part_006 77-80: a fresh entry is cached
TrackCacheHit(num) ==
    /\ HasTrackingCache
    /\ trackingCache[num].present
    /\ now - trackingCache[num].timestamp < TrackTtl

TokenCachedNever == FALSE

\* part_000:33 / 250, part_006:42: an unexpired token is cached
TokenCached == HasTokenCache /\ upsToken # Null /\ now < upsTokenExpiry

\* part_000:35 / 251: getUPSToken returns null without credentials
RequiresCreds == variant \in {"v13", "v22"}

\* an answered tracking call is dropped before anything else happens
TrackReapable == \E c \in Calls : trk[c].pc = "done"

TrackCanArrive(c) ==
    /\ variant \in TrackVariants
    /\ ~TrackReapable
    /\ trk[c].pc = "idle"
    /\ \A d \in Calls : d < c => trk[d].pc # "idle"

\* the call ends with rec; in part_005 the handler answers with it
Answer(t, rec, status) == [t EXCEPT !.pc = "done", !.result = rec, !.http = status]

\* the call returns rec (part_005:141: res.json(parsed))
Returns(t, rec) == Answer(t, rec, IF variant = "part_005" THEN 200 ELSE 0)

\* the call ends in its catch block (part_005:146: res.status(500))
Caught(t, rec) == Answer(t, rec, IF variant = "part_005" THEN 500 ELSE 0)

\* what the call returns when getUPSToken gave no token: part_000:71 (v13),
\* 269 and 292 (v22), part_004 57 and 105 and part_005 43 and 146 (the throw
\* is caught), part_006:83
NoTokenRec == IF variant = "part_006" THEN AuthErrorRec ELSE Fallback

\* trackWithUPS(num) / trackUPS(num) up to its first network call
Track(c, num) ==
    /\ TrackCanArrive(c)
    /\ LET t0 == [Trk0 EXCEPT !.num = num, !.fresh = FreshEntry(num)]
           t  == [t0 EXCEPT !.held = TokenHeld]
       IN trk' = [trk EXCEPT ![c] =
                     IF TrackCacheHit(num) THEN Returns(t0, trackingCache[num].data)
                     ELSE IF HasPrefixCheck /\ ~IsCarrierNumber(num) THEN Returns(t0, Fallback)
                     ELSE IF TokenCached
                     THEN [t EXCEPT !.pc = "carrier", !.token = upsToken, !.net = <<"carrier">>]
                     ELSE IF RequiresCreds /\ ~UPS_CREDS THEN Returns(t, NoTokenRec)
                     ELSE [t EXCEPT !.pc = "token", !.net = <<"token">>]]
    /\ UNCHANGED <<variant, SS_AUTH, fnVars, ordersVars, syncVars,
                   UPS_CREDS, trackingCache, upsToken, upsTokenExpiry>>

ChecksBodyNever == FALSE

\* part_005 116-120: the handler tests !trackingNumber before anything else
ChecksBody == variant = "part_005"

\* part_005:117: res.status(400).json({ error: "Tracking number is required." })
BadRequestRec == Rec("", <<>>, <<>>, FALSE, TRUE)

\* part_005 113-125: POST /track with a body that has no trackingNumber
PostTrackEmpty(c) ==
    /\ variant = "part_005"
    /\ TrackCanArrive(c)
    /\ trk' = [trk EXCEPT ![c] =
                  IF ChecksBody THEN Answer(Trk0, BadRequestRec, 400)
                  ELSE [Trk0 EXCEPT !.pc = "token", !.net = <<"token">>]]
    /\ UNCHANGED <<variant, SS_AUTH, fnVars, ordersVars, syncVars,
                   UPS_CREDS, trackingCache, upsToken, upsTokenExpiry>>

\* part_000 37-56 / 252-262, part_004 46-58, part_005 23-44, part_006 44-65: the token
\* exchange of call c settles; the token it yields is named after the call.
\* Without credentials the carrier rejects the exchange.
TokenResponse(c, ok) ==
    /\ ~TrackReapable
    /\ trk[c].pc = "token"
    /\ UPS_CREDS \/ ~ok
    /\ IF ok
       THEN /\ trk' = [trk EXCEPT ![c] =
                          [@ EXCEPT !.pc = "carrier", !.token = c, !.net = Append(@, "carrier")]]
            /\ IF HasTokenCache
               THEN upsToken' = c /\ upsTokenExpiry' = now + TokenLife
               ELSE UNCHANGED <<upsToken, upsTokenExpiry>>
       ELSE /\ trk' = [trk EXCEPT ![c] =
                          IF variant \in {"v13", "part_006"}
                          THEN Returns(@, NoTokenRec) ELSE Caught(@, NoTokenRec)]
            /\ UNCHANGED <<upsToken, upsTokenExpiry>>
    /\ UNCHANGED <<variant, SS_AUTH, fnVars, ordersVars, syncVars, UPS_CREDS, trackingCache>>

CacheSetEvery(cache, num, rec) ==
    [n \in Keys |-> [cache[n] EXCEPT !.present = TRUE, !.data = rec, !.timestamp = now]]

\* part_000:95, part_004:100, part_006:115: trackingCache.set(trackingNumber, { data, timestamp: Date.now() })
CacheSet(cache, num, rec) ==
    [cache EXCEPT ![num] = [@ EXCEPT !.present = TRUE, !.data = rec, !.timestamp = now]]

\* part_000 74-100 / 272-293, part_004 74-114, part_005 127-156, part_006 86-126: the carrier
\* call of call c settles
CarrierResponse(c, out) ==
    /\ ~TrackReapable
    /\ trk[c].pc = "carrier"
    /\ IF out.kind = "ok"
       THEN /\ trk' = [trk EXCEPT ![c] = Returns(@, ParseUPS(out.body))]
            /\ trackingCache' =
                  IF HasTrackingCache
                  THEN CacheSet(trackingCache, trk[c].num, ParseUPS(out.body))
                  ELSE trackingCache
       ELSE /\ trk' = [trk EXCEPT ![c] = Caught(@, Fallback)]
            /\ UNCHANGED trackingCache
    /\ UNCHANGED <<variant, SS_AUTH, fnVars, ordersVars, syncVars, UPS_CREDS, upsToken, upsTokenExpiry>>

\* part_000:177: POST /sync/orders of v13 empties the tracking cache
ClearTrackingCache ==
    /\ variant = "v13"
    /\ ~TrackReapable
    /\ \E n \in Keys : trackingCache[n].present
    /\ trackingCache' = [n \in Keys |-> [trackingCache[n] EXCEPT !.present = FALSE]]
    /\ UNCHANGED <<variant, SS_AUTH, fnVars, ordersVars, syncVars,
                   UPS_CREDS, upsToken, upsTokenExpiry, trk>>

\* ------------------------------------------------- the enrichment of a record
\* the variants that look up the carrier data of each upstream record:
\* fetchRealOrders of v13 (part_000 116-138), performSystemSync and
\* fetchLiveOrders of v22 (part_000 351-370, 307-324), GET /orders/with-tracking
\* of part_006 (204-220)
EnrichVariants == {"v13", "v22", "part_006"}

\* the trackingNumber field of an upstream record: absent, empty or a number
RecordNums ==
    {[present |-> FALSE, value |-> <<>>]}
    \cup [present : {TRUE}, value : {<<>>} \cup Nums]

\* part_000 117 / 352, part_006:216: s.trackingNumber || "No Tracking"
TrackingNumberOf(tn) == IF tn.present /\ tn.value # <<>> THEN tn.value ELSE NoTrackingNum

\* part_000 118 / 353, part_006:204: the carrier data of a record that is not tracked
Placeholder ==
    CASE variant = "v13" -> Rec("Shipped", <<"Label Created">>, <<"Pending">>, FALSE, FALSE)
      [] variant \in {"v22", "v19"} ->
            Rec("Label Created", <<"Pre-Transit">>, <<"Pending Scan">>, FALSE, FALSE)
      [] OTHER           -> Rec(NoTracking, <<Undefined>>, <<Undefined>>, FALSE, FALSE)

SkipsCarrierNever(tn) == FALSE

\* part_000 120 / 354, part_006:204: the record is not tracked
SkipsCarrier(tn) == tn = NoTrackingNum

\* part_000 124-137 / 357-369, part_006 209-220: the merged row of a record
\* whose lookup t has returned
MergedRow(t) ==
    [ trackingNumber |-> t.num,
      upsStatus      |-> t.result.status,
      upsLocation    |-> t.result.location,
      upsEta         |-> t.result.eta ]

\* the map callback for one upstream record, up to its first network call
Enrich(c, tn) ==
    /\ variant \in EnrichVariants
    /\ TrackCanArrive(c)
    /\ IF SkipsCarrier(TrackingNumberOf(tn))
       THEN /\ trk' = [trk EXCEPT ![c] =
                          Returns([Trk0 EXCEPT !.num = TrackingNumberOf(tn)], Placeholder)]
            /\ UNCHANGED <<variant, SS_AUTH, fnVars, ordersVars, syncVars,
                           UPS_CREDS, trackingCache, upsToken, upsTokenExpiry>>
       ELSE Track(c, TrackingNumberOf(tn))

\* the clock advances by half the life of a cache entry, or, where there
\* is no tracking cache, by half the life of a token
TrackStep == IF HasTrackingCache THEN TrackTtl \div 2 ELSE TokenLife \div 2

TrackTick ==
    /\ variant \in TrackVariants
    /\ ~TrackReapable
    /\ ticks < MaxTicks
    /\ ticks' = ticks + 1
    /\ now' = now + TrackStep
    /\ UNCHANGED <<variant, SS_AUTH, fnVars, cacheVars, syncVars, trackVars>>

\* the answered tracking calls are dropped
TrackReap ==
    /\ TrackReapable
    /\ trk' = [c \in Calls |-> IF trk[c].pc = "done" THEN Trk0 ELSE trk[c]]
    /\ UNCHANGED <<variant, SS_AUTH, fnVars, ordersVars, syncVars,
                   UPS_CREDS, trackingCache, upsToken, upsTokenExpiry>>

NextTrack ==
    \/ \E c \in Calls, num \in Nums : Track(c, num)
    \/ \E c \in Calls, tn \in RecordNums : Enrich(c, tn)
    \/ \E c \in Calls : PostTrackEmpty(c)
    \/ \E c \in Calls, ok \in BOOLEAN : TokenResponse(c, ok)
    \/ \E c \in Calls, out \in CarrierOutcomes : CarrierResponse(c, out)
    \/ ClearTrackingCache
    \/ TrackTick
    \/ TrackReap

\* ------------------------------------------- the mapping of one order
\* The tracking number that allOrders.map(...) gives one upstream order, in
\* "v8" (server.js 79-88), "v5" (server.js 419-423), "v5d" (the first
\* server of server.js, 249-262) and "v10" (part_003 79-98).
MergeVariants == {"v8", "v5", "v5d", "v10"}

\* number of entries a shipments array can have
MaxShipments == 2

\* the entries of a shipments array: without a tracking number, with one,
\* and with one of five characters
ShipmentEntries == [trackingNumber : {Undefined, "1ZSHIP", "12345"}]

ShipmentLists == UNION {[1..n -> ShipmentEntries] : n \in 0..MaxShipments}

\* the upstream orders: shipments absent, or an array, each with and
\* without a top-level trackingNumber
MergeOrders ==
    [hasShipments : {FALSE}, shipments : {<<>>}, trackingNumber : {Undefined, "", "1ZTOP"}]
    \cup [hasShipments : {TRUE}, shipments : ShipmentLists,
          trackingNumber : {Undefined, "", "1ZTOP"}]

\* part_003:84: s.trackingNumber && s.trackingNumber.length > 5
ValidShipment(s) == Truthy(s.trackingNumber) /\ Len(s.trackingNumber) > 5

\* Array.prototype.find with the test of part_003:84: the index of the first
\* entry that passes, 0 if none does
FindValid(shipments) ==
    IF \E i \in 1..Len(shipments) : ValidShipment(shipments[i])
    THEN CHOOSE i \in 1..Len(shipments) :
            /\ ValidShipment(shipments[i])
            /\ \A j \in 1..(i - 1) : ~ValidShipment(shipments[j])
    ELSE 0

\* part_003 80-98 (v10)
FinalTrackingV10(o) ==
    LET found == IF o.hasShipments /\ Len(o.shipments) > 0 THEN FindValid(o.shipments) ELSE 0
    IN IF found # 0 THEN o.shipments[found].trackingNumber
       ELSE IF Truthy(o.trackingNumber) THEN o.trackingNumber
       ELSE NoTracking

\* server.js:255 (v5d): o.shipments && o.shipments[0] ? o.shipments[0].trackingNumber : "No Tracking"
FinalTrackingV5d(o) ==
    IF o.hasShipments /\ Len(o.shipments) > 0
    THEN o.shipments[1].trackingNumber
    ELSE NoTracking

\* the trackingNumber of the mapped row of the running variant
FinalTracking(o) ==
    CASE variant = "v8"  -> FinalTrackingV8(o)
      [] variant = "v5"  -> FinalTrackingV5(o)
      [] variant = "v5d" -> FinalTrackingV5d(o)
      [] OTHER           -> FinalTrackingV10(o)

NoOrder == [hasShipments |-> FALSE, shipments |-> <<>>, trackingNumber |-> Undefined]
NotMapped == [done |-> FALSE, trackingNumber |-> Undefined]

\* allOrders.map(o => ...) applied to order
MapOrder ==
    /\ ~mapped.done
    /\ mapped' = [done |-> TRUE, trackingNumber |-> FinalTracking(order)]
    /\ UNCHANGED <<variant, SS_AUTH, ordersVars, syncVars, trackVars,
                   order, parseVars, readVars, upsertVars>>

NextMerge == MapOrder

\* ------------------------------------------ the record of one carrier answer
\* The record trackUPS of part_004 (85-114) and part_006 (83-125) and the
\* POST /track handler of part_005 with its parseUPSResponse (52-106,
\* 113-157) make of one ending of the carrier call.
ParseVariants == {"part_004", "part_005", "part_006"}

\* the status descriptions the carrier can send
StatusTexts == {Undefined, "Delivered", "DELIVERED", "Out For Delivery", "In Transit"}

UpsBodies ==
    [desc : StatusTexts, city : {Undefined, "Reno"}, state : {"NV"},
     date : {Undefined, <<"2", "0", "2", "4", "0", "1", "1", "5">>}, pkgDate : {Undefined}]

\* how the call can end: no token, a rejection of the tracking request, or
\* a 2xx with a body
UpsEndings ==
    [kind : {"ok"}, body : UpsBodies]
    \cup [kind : {"noToken", "err"}, body : {NoBodyUPS}]

\* the record the tracking function returns for ending d
RecordOf(d) ==
    CASE d.kind = "ok"      -> ParseUPS(d.body)
      [] d.kind = "noToken" -> NoTokenRec
      [] OTHER              -> Fallback

NoData == [kind |-> "none", body |-> NoBodyUPS]
NotParsed == [done |-> FALSE, record |-> Rec("", <<>>, <<>>, FALSE, FALSE)]

\* the tracking function applied to upsRes
ParseResponse ==
    /\ ~parsed.done
    /\ parsed' = [done |-> TRUE, record |-> RecordOf(upsRes)]
    /\ UNCHANGED <<variant, SS_AUTH, ordersVars, syncVars, trackVars,
                   mergeVars, upsRes, readVars, upsertVars>>

NextParse == ParseResponse

\* --------------------------------------------- the body of one read answer
\* What GET /orders and GET /tracking answer once the list they page is
\* there: in "v8" (server.js 124-166), "v5" (server.js 465-510) and "v10"
\* (part_003 133-176) a slice of the list fetchRealOrders gave, in "v13"
\* (part_000 152-174) the one upstream page fetchRealOrders(page) fetched.
ReadVariants == {"v8", "v5", "v10", "v13"}

\* the longest list a read pages
MaxRows == 30

RowCounts == {0, 1, 3, MaxRows}

\* req.query.page and req.query.limit after parseInt(x, 10)
QueryValues == {NaN, <<0>>, <<1>>, <<2>>, <<-1>>}

\* how many shipments the upstream holds (v13)
UpTotals == {0, ShortPage, PAGE_SIZE + ShortPage}

ReadReqs ==
    [ kind  : {"orders", "tracking"},
      q     : [page : QueryValues, limit : QueryValues],
      rows  : RowCounts,             \* the length of the list fetchRealOrders gave
      up    : [ok : BOOLEAN, total : UpTotals] ]   \* v13: how the upstream call ends

\* the list of n mapped orders
RowsTo(n) == [i \in 1..n |-> i]

\* part_003 153-154: the trackable rows of v10
TrackableV10(orders) ==
    LET t == SelectSeq(orders, LAMBDA id : FinalTrackingV10(UpstreamOrder(id)) # NoTracking)
    IN [i \in 1..Len(t) |-> t[i]]

\* part_000 108-139: what fetchRealOrders(page) returns; the upstream serves
\* its shipments in pages of PAGE_SIZE and reports their number and the
\* number of pages
FetchPageV13(page, up) ==
    IF up.ok
    THEN LET left == up.total - (page - 1) * PAGE_SIZE
             n    == IF page < 1 THEN 0 ELSE Max(0, Min(PAGE_SIZE, left))
         IN [data |-> UpstreamPage(page, n), total |-> up.total,
             pages |-> CeilDiv(up.total, PAGE_SIZE)]
    ELSE [data |-> <<>>, total |-> 0, pages |-> 0]

\* part_000:116 and 166: s.trackingNumber || "No Tracking" is not "No Tracking"
TrackableV13(data) ==
    LET t == SelectSeq(data, LAMBDA id : Truthy(UpstreamOrder(id).trackingNumber))
    IN [i \in 1..Len(t) |-> t[i]]

\* part_000 152-174: GET /orders and GET /tracking of v13
ReadV13(kind, q, up) ==
    LET page   == ParseIntOr(q.page, 1)
        result == FetchPageV13(page, up)
    IN IF kind = "orders"
       THEN [data |-> result.data, total |-> result.total, page |-> page,
             totalPages |-> result.pages]
       ELSE [data |-> TrackableV13(result.data), total |-> Len(TrackableV13(result.data)),
             page |-> page, totalPages |-> result.pages]

\* the collection the handler pages
PagedRows(r) ==
    CASE variant = "v13" ->
            LET data == FetchPageV13(ParseIntOr(r.q.page, 1), r.up).data
            IN IF r.kind = "tracking" THEN TrackableV13(data) ELSE data
      [] variant = "v10" ->
            IF r.kind = "tracking" THEN TrackableV10(RowsTo(r.rows)) ELSE RowsTo(r.rows)
      [] OTHER ->
            IF r.kind = "tracking" THEN Trackable(RowsTo(r.rows)) ELSE RowsTo(r.rows)

\* the body res.json is given
ReadBody(r) ==
    IF variant = "v13" THEN ReadV13(r.kind, r.q, r.up) ELSE Paginate(PagedRows(r), r.q)

NoRead ==
    [kind |-> "none", q |-> [page |-> NaN, limit |-> NaN], rows |-> 0,
     up |-> [ok |-> FALSE, total |-> 0]]
NotRead == [done |-> FALSE, body |-> NoBody, limit |-> 0]

\* the read handler applied to readReq; limit is the page size in force:
\* the handler's limit, in v13 the PAGE_SIZE asked of the upstream
ReadResponse ==
    /\ ~readRes.done
    /\ readRes' = [done |-> TRUE, body |-> ReadBody(readReq),
                   limit |-> IF variant = "v13" THEN PAGE_SIZE
                             ELSE LimitOf(PagedRows(readReq), readReq.q)]
    /\ UNCHANGED <<variant, SS_AUTH, ordersVars, syncVars, trackVars,
                   mergeVars, parseVars, readReq, upsertVars>>

NextRead == ReadResponse

\* ------------------------------------------- the upsert of one shipment
\* What performSystemSync of "v22" (part_000 351-370) and "v19" (part_001
\* 114-146) writes for one shipment of the page: the carrier data
\* trackWithUPS gave, or the placeholder, set with { merge: true } on the
\* document of the order.  Of a document the carrier fields are held, and
\* note for every field the sync does not write.
UpsertVariants == {"v22", "v19"}

\* part_000:354: trackWithUPS(trackingNumber) as a function of how its network calls end
TrackResult(num, ending) ==
    IF HasPrefixCheck /\ ~IsCarrierNumber(num) THEN Fallback ELSE RecordOf(ending)

\* part_000 353-354 / part_001 116-119: upsData
UpsDataOf(tn, ending) ==
    IF SkipsCarrier(TrackingNumberOf(tn)) THEN Placeholder
    ELSE TrackResult(TrackingNumberOf(tn), ending)

NoDoc == [exists |-> FALSE, status |-> "", location |-> <<>>, eta |-> <<>>, note |-> ""]

\* part_000 357-369 / part_001 123-143: batch.set(orderRef, { ..., status:
\* upsData.status, location: upsData.location, eta: upsData.eta, ... },
\* { merge: true }): the fields given are written, the others are kept
SetMerge(old, ups) ==
    [exists |-> TRUE, status |-> ups.status, location |-> ups.location,
     eta |-> ups.eta, note |-> old.note]

\* how the tracking call of the shipment can end
SyncEndings ==
    [kind : {"ok"}, body : Bodies] \cup [kind : {"noToken", "err"}, body : {NoBodyUPS}]

\* the documents an earlier pass can have left: none, or what it wrote for
\* this order, possibly with a field added by another writer
EarlierDocs ==
    {NoDoc}
    \cup {[SetMerge(NoDoc, UpsDataOf(tn, e)) EXCEPT !.note = n] :
             tn \in RecordNums, e \in SyncEndings, n \in {"", "packed"}}

Shipments == [doc : EarlierDocs, tn : RecordNums, ending : SyncEndings]

NoShipment ==
    [doc |-> NoDoc, tn |-> [present |-> FALSE, value |-> <<>>],
     ending |-> [kind |-> "none", body |-> NoBodyUPS]]
NotWritten == [done |-> FALSE, doc |-> NoDoc]

\* the body of shipments.map(...) applied to stored, and the commit of the batch
UpsertShipment ==
    /\ ~written.done
    /\ written' = [done |-> TRUE,
                   doc |-> SetMerge(stored.doc, UpsDataOf(stored.tn, stored.ending))]
    /\ UNCHANGED <<variant, SS_AUTH, ordersVars, syncVars, trackVars,
                   mergeVars, parseVars, readVars, stored>>

NextUpsert == UpsertShipment

\* no order is being mapped and no carrier answer is being parsed
MergeIdle == order = NoOrder /\ mapped = NotMapped
ParseIdle == upsRes = NoData /\ parsed = NotParsed
ReadIdle == readReq = NoRead /\ readRes = NotRead
UpsertIdle == stored = NoShipment /\ written = NotWritten

FnInit == MergeIdle /\ ParseIdle /\ ReadIdle /\ UpsertIdle

\* ------------------------------------------------------ specifications
\* the cached variants of server.js
InitOrders ==
    /\ variant \in Variants
    /\ SS_AUTH \in BOOLEAN
    /\ db = FALSE
    /\ UPS_CREDS = FALSE
    /\ OrdersInit
    /\ SyncInit
    /\ TrackInit
    /\ FnInit

SpecOrders == InitOrders /\ [][NextOrders]_vars

\* the cached variants under the scheduling the event loop gives: a timer
\* that has run out fires and an answered request is dropped.  The page
\* call is axios.get without a timeout option (server.js 29-38, 366-375), so
\* nothing makes a call that the upstream leaves open settle: SSRespond is
\* not under a fairness condition.
FairOrders ==
    /\ WF_vars(\E id \in Tasks : Wake(id))
    /\ WF_vars(Reap)

SpecOrdersFair == InitOrders /\ [][NextOrders]_vars /\ FairOrders

\* the database-backed variants; v19 does not start without a store (part_001:27)
InitSync ==
    /\ variant \in SyncVariants
    /\ SS_AUTH \in BOOLEAN
    /\ db \in BOOLEAN
    /\ variant = "v19" => db
    /\ UPS_CREDS = FALSE
    /\ OrdersInit
    /\ SyncInit
    /\ TrackInit
    /\ FnInit

SpecSync == InitSync /\ [][NextSync]_vars

\* the tracking functions; part_004 has the credentials written into it
\* (part_004 30-31)
InitTrack ==
    /\ variant \in TrackVariants
    /\ SS_AUTH = FALSE
    /\ db = FALSE
    /\ UPS_CREDS \in BOOLEAN
    /\ variant = "part_004" => UPS_CREDS
    /\ OrdersInit
    /\ SyncInit
    /\ TrackInit
    /\ FnInit

SpecTrack == InitTrack /\ [][NextTrack]_vars

\* the database-backed variants with their reads
NextStore ==
    \/ NextSync
    \/ \E r \in Runs, kind \in ReadKinds : GetRead(r, kind)
    \/ \E r \in Runs, ok \in BOOLEAN : StoreReadResponse(r, ok)

SpecStore == InitSync /\ [][NextStore]_vars

\* every variant that pages through the upstream
InitPaging == InitOrders \/ InitSync

NextPaging == NextOrders \/ NextSync

SpecPaging == InitPaging /\ [][NextPaging]_vars

\* the mapping of one upstream order, for every order shape
InitMerge ==
    /\ variant \in MergeVariants
    /\ SS_AUTH = FALSE
    /\ db = FALSE
    /\ UPS_CREDS = FALSE
    /\ OrdersInit
    /\ SyncInit
    /\ TrackInit
    /\ order \in MergeOrders
    /\ mapped = NotMapped
    /\ ParseIdle
    /\ ReadIdle
    /\ UpsertIdle

SpecMerge == InitMerge /\ [][NextMerge]_vars

\* the record of one carrier answer, for every ending of the call
InitParse ==
    /\ variant \in ParseVariants
    /\ SS_AUTH = FALSE
    /\ db = FALSE
    /\ UPS_CREDS = TRUE
    /\ OrdersInit
    /\ SyncInit
    /\ TrackInit
    /\ MergeIdle
    /\ upsRes \in UpsEndings
    /\ parsed = NotParsed
    /\ ReadIdle
    /\ UpsertIdle

SpecParse == InitParse /\ [][NextParse]_vars

\* the body of one read answer, for every query and list
InitRead ==
    /\ variant \in ReadVariants
    /\ SS_AUTH = TRUE
    /\ db = FALSE
    /\ UPS_CREDS = FALSE
    /\ OrdersInit
    /\ SyncInit
    /\ TrackInit
    /\ MergeIdle
    /\ ParseIdle
    /\ readReq \in ReadReqs
    /\ variant = "v13" => readReq.rows = 0
    /\ variant # "v13" => readReq.up = [ok |-> FALSE, total |-> 0]
    /\ readRes = NotRead
    /\ UpsertIdle

SpecRead == InitRead /\ [][NextRead]_vars

\* the upsert of one shipment, for every earlier document and every ending
\* of its tracking call
InitUpsert ==
    /\ variant \in UpsertVariants
    /\ SS_AUTH = TRUE
    /\ db = TRUE
    /\ UPS_CREDS = TRUE
    /\ OrdersInit
    /\ SyncInit
    /\ TrackInit
    /\ MergeIdle
    /\ ParseIdle
    /\ ReadIdle
    /\ stored \in Shipments
    /\ written = NotWritten

SpecUpsert == InitUpsert /\ [][NextUpsert]_vars

\* ---------------------------------------------------------- properties
\* refresh i is in flight: its closure is between its first page call and its return
Running(i) == task[i].pc \in {"fetching", "sleeping"}

\* how often page p was requested upstream by the refreshes that exist
PageCalls(p) ==
    Cardinality({<<i, j>> \in Tasks \X (1..MAX_PAGES + 1) :
                    j <= Len(task[i].calls) /\ task[i].calls[j] = p})

\* the requests that wait for a refresh
Waiting == {r \in Reqs : req[r].pc = "await"}

\* C1: whatever the interleaving of GET /orders, GET /tracking and POST
\* /sync/orders, at most one refresh is in flight, and it is the one the
\* marker holds; while requests wait on a cold cache, page 1 was requested
\* upstream exactly once, however many they are.
C1_SingleRefresh ==
    /\ Cardinality({i \in Tasks : Running(i)}) <= 1
    /\ \A i \in Tasks : Running(i) => inFlightOrders = i
    /\ (Waiting # {} /\ ordersCache.fetchedAt = 0) => PageCalls(1) = 1

\* C1: N = MaxReq GET /orders wait on a cold cache while page 1 is being fetched
C1_Witness ==
    /\ ordersCache.fetchedAt = 0
    /\ \A r \in Reqs : req[r].kind = "orders" /\ req[r].pc = "await"
    /\ \E i \in Tasks : task[i].pc = "fetching" /\ task[i].calls = <<1>>

\* request r has just called fetchRealOrders
Arrives(r) == req[r].pc = "idle" /\ req'[r].pc # "idle"

\* C2: a call of fetchRealOrders that finds the cache fresh (fetchedAt set
\* and now - fetchedAt < CACHE_TTL_MS) returns the cached list at once,
\* issues no upstream call, and leaves cache, marker and refreshes as they were.
C2_FreshServedFromCache ==
    [][\A r \in Reqs :
          (Arrives(r) /\ req'[r].sawFetchedAt # 0 /\ now - req'[r].sawFetchedAt < CacheTtl)
          => /\ req'[r].pc = "done"
             /\ req'[r].orders = ordersCache.data
             /\ ~req'[r].fetchSince
             /\ UNCHANGED <<ordersCache, inFlightOrders, task>>]_vars

\* C2: a request was answered from a fresh, non-empty cache half a TTL old
C2_Witness ==
    \E r \in Reqs :
        /\ req[r].pc = "done" /\ req[r].kind = "orders"
        /\ req[r].sawFetchedAt # 0 /\ now - req[r].sawFetchedAt = CacheTtl \div 2
        /\ Len(req[r].orders) > 0 /\ req[r].orders = ordersCache.data
        /\ req[r].started = Null

\* request r called fetchRealOrders with a stale cache while the marker held a refresh
Attached(r) ==
    /\ req[r].pc # "idle"
    /\ req[r].sawInFlight # Null
    /\ ~(req[r].sawFetchedAt # 0 /\ now - req[r].sawFetchedAt < CacheTtl)

\* C3: a request that calls fetchRealOrders while a refresh is in flight
\* starts no refresh of its own, waits for that one, and is given exactly
\* the list that refresh resolves to (the list its starter is given),
\* whether the refresh succeeded or failed.
C3_AttachedGetsSameResult ==
    \A r \in Reqs :
        Attached(r) =>
            /\ req[r].started = Null
            /\ req[r].pc = "await" => req[r].awaits = req[r].sawInFlight
            /\ req[r].pc = "done" =>
                   /\ task[req[r].sawInFlight].pc = "done"
                   /\ req[r].orders = task[req[r].sawInFlight].result
                   /\ \A s \in Reqs : req[s].started = req[r].sawInFlight /\ req[s].pc = "done"
                                          => req[s].orders = req[r].orders

\* C3: a request that attached to a refresh and its starter were both given
\* the refresh's non-empty list
C3_Witness ==
    \E r, s \in Reqs :
        /\ Attached(r) /\ req[r].pc = "done" /\ Len(req[r].orders) > 0
        /\ req[s].started = req[r].sawInFlight /\ req[s].pc = "done"
        /\ req[s].orders = req[r].orders

\* C4: whenever a refresh has ended, the marker no longer refers to it
C4_MarkerCleared ==
    \A i \in Tasks : task[i].pc = "done" => inFlightOrders # i

\* C5: with the credentials set, every answered POST /sync/orders saw an
\* upstream page call issued between its arrival and its response
C5_SyncForcesRefresh ==
    \A r \in Reqs :
        (SS_AUTH /\ req[r].kind = "sync" /\ req[r].pc = "done") => req[r].fetchSince

\* the pages served were k full pages followed by `last`
Served(sizes, k, last) ==
    /\ Len(sizes) = k + 1
    /\ \A j \in 1..k : sizes[j] = PAGE_SIZE
    /\ sizes[k + 1] = last

\* C7: when the upstream served k full pages and then a shorter page of r
\* records (k + 1 <= MAX_PAGES), the refresh made exactly the page calls
\* 1..k+1 in this order and returned k*PAGE_SIZE + r records in upstream order.
C7_PagesConcatenated ==
    \A i \in Tasks : \A k \in 0..(MAX_PAGES - 1) : \A r \in 0..(PAGE_SIZE - 1) :
        (task[i].pc = "done" /\ Served(task[i].got, k, r))
        => /\ task[i].calls = [j \in 1..(k + 1) |-> j]
           /\ Len(task[i].result) = k * PAGE_SIZE + r
           /\ \A j \in 1..Len(task[i].result) : task[i].result[j] = j

\* C7: pages of PAGE_SIZE, PAGE_SIZE and ShortPage records gave three calls
\* and 2*PAGE_SIZE + ShortPage records
C7_Witness ==
    \E i \in Tasks :
        /\ task[i].pc = "done"
        /\ Served(task[i].got, 2, ShortPage)
        /\ task[i].calls = <<1, 2, 3>>
        /\ Len(task[i].result) = 2 * PAGE_SIZE + ShortPage

\* C9: a refresh whose page call failed after k >= 1 full pages returned
\* the k*PAGE_SIZE records of those pages
C9_PartialKept ==
    \A i \in Tasks : \A k \in 1..(MAX_PAGES - 1) :
        (task[i].pc = "done" /\ Served(task[i].got, k, -1))
        => /\ Len(task[i].result) = k * PAGE_SIZE
           /\ \A j \in 1..Len(task[i].result) : task[i].result[j] = j

\* C6: two executions of performSystemSync are never in progress at once
C6_OneSyncAtATime == Cardinality({r \in Runs : SyncRunning(r)}) <= 1

\* C8: a refresh and a sync request at most MAX_PAGES pages upstream,
\* whatever is served; once MAX_PAGES pages were served no call is
\* outstanding and the page counter is past MAX_PAGES, so that the loop
\* test ends the refresh or sync.
C8_AtMostMaxPages ==
    /\ \A i \in Tasks :
          /\ Len(task[i].calls) <= MAX_PAGES
          /\ Len(task[i].got) <= Len(task[i].calls)
          /\ Len(task[i].got) = MAX_PAGES =>
                 \/ task[i].pc = "done"
                 \/ task[i].pc = "sleeping" /\ task[i].page > MAX_PAGES
    /\ \A r \in Runs :
          /\ Len(run[r].calls) <= SYNC_MAX_PAGES
          /\ Len(run[r].got) <= Len(run[r].calls)
          /\ Len(run[r].got) = SYNC_MAX_PAGES =>
                 \/ run[r].pc \in {"committing", "done"}
                 \/ run[r].pc = "sleeping" /\ run[r].page > SYNC_MAX_PAGES

\* C8: a refresh was served MAX_PAGES full pages and ended after the calls
\* 1..MAX_PAGES with MAX_PAGES*PAGE_SIZE records
C8_Witness ==
    \E i \in Tasks :
        /\ task[i].pc = "done"
        /\ task[i].got = [j \in 1..MAX_PAGES |-> PAGE_SIZE]
        /\ task[i].calls = [j \in 1..MAX_PAGES |-> j]
        /\ Len(task[i].result) = MAX_PAGES * PAGE_SIZE

\* C10: a call of track for a number that does not start with "1Z" issues
\* no network call, and what it returns is the fixed sentinel
C10_NoCallForOtherCarriers ==
    \A c \in Calls :
        (trk[c].pc # "idle" /\ ~StartsWith(trk[c].num, <<"1", "Z">>))
        => /\ trk[c].net = <<>>
           /\ trk[c].pc = "done"
           /\ trk[c].result = Fallback

\* C11: a record without a tracking number is merged with the tracking number
\* "No Tracking" and the fixed placeholder fields, and neither a token
\* exchange nor a carrier call was made for it
C11_NoTrackingNoFetch ==
    \A c \in Calls :
        (variant \in EnrichVariants /\ trk[c].pc = "done" /\ trk[c].num = NoTrackingNum)
        => /\ trk[c].net = <<>>
           /\ MergedRow(trk[c]) =
                 [ trackingNumber |-> <<"No Tracking">>,
                   upsStatus      |-> Placeholder.status,
                   upsLocation    |-> Placeholder.location,
                   upsEta         |-> Placeholder.eta ]

C11_Witness ==
    \E c \in Calls :
        /\ variant = "v13"
        /\ trk[c].pc = "done"
        /\ trk[c].num = NoTrackingNum
        /\ trk[c].result.location = <<"Label Created">>
        /\ \E d \in Calls : trk[d].pc = "carrier"

\* C12: whenever the carrier call of a tracking call fails, the call ends
\* with a record whose status is "Pending Update" and whose error flag is set
C12_FailureGivesPendingUpdate ==
    [][\A c \in Calls, out \in CarrierOutcomes :
          (out.kind = "err" /\ CarrierResponse(c, out))
          => /\ trk'[c].pc = "done"
             /\ trk'[c].result.status = "Pending Update"
             /\ trk'[c].result.error]_vars

\* C13: a tracking call whose token exchange was rejected is not answered
\* with an error response
C13_TokenFailureNotFatal ==
    \A c \in Calls :
        (trk[c].pc = "done" /\ trk[c].net = <<"token">>) => trk[c].http < 400

\* a track(num) has succeeded: the carrier's answer for num was cached
Tracked(num) == trackingCache[num].data.status # ""

\* the last success of track(num) is less than the time to live ago
WithinTtl(num) == now - trackingCache[num].timestamp < TrackTtl

\* C14 as stated: a track(T) made within the time to live after a successful
\* track(T) returns without any network call
C14_TrackedWithinTtlIsCached ==
    [][\A c \in Calls, num \in Nums :
          (HasTrackingCache /\ Tracked(num) /\ WithinTtl(num) /\ Track(c, num))
          => /\ trk'[c].pc = "done"
             /\ trk'[c].net = <<>>]_vars

\* C14: unless the tracking cache was emptied since, a track(T) made within
\* the time to live after a successful track(T) returns the record cached
\* under T without any network call
C14_CachedUnlessCleared ==
    \A c \in Calls :
        trk[c].fresh
        => /\ Tracked(trk[c].num)
           /\ trk[c].pc = "done"
           /\ trk[c].net = <<>>
           /\ trk[c].result = trackingCache[trk[c].num].data

C14_Witness ==
    \E c \in Calls :
        /\ trk[c].fresh
        /\ trk[c].net = <<>>
        /\ IsCarrierNumber(trk[c].num)
        /\ now > trackingCache[trk[c].num].timestamp
        /\ trk[c].result = trackingCache[trk[c].num].data
        /\ trk[c].result.status = "Delivered"

\* C15: once the carrier call of a track(T) has failed, the cache holds a
\* fresh entry for T, so that a track(T) made right afterwards returns from
\* the cache without a new carrier request
C15_FailureCachedBriefly ==
    [][\A c \in Calls, out \in CarrierOutcomes :
          (HasTrackingCache /\ out.kind = "err" /\ CarrierResponse(c, out))
          => /\ trackingCache'[trk[c].num].present
             /\ now - trackingCache'[trk[c].num].timestamp < TrackTtl]_vars

\* C16: a getUPSToken call made while a token is held whose recorded expiry
\* lies ahead returns that token and makes no token exchange
C16_CachedTokenReused ==
    \A c \in Calls :
        trk[c].held # Null
        => /\ trk[c].token = trk[c].held
           /\ trk[c].net # <<>>
           /\ \A i \in 1..Len(trk[c].net) : trk[c].net[i] # "token"

C16_Witness ==
    \E c \in Calls :
        /\ trk[c].held # Null
        /\ trk[c].pc = "carrier"
        /\ trk[c].net = <<"carrier">>
        /\ now > 1
        /\ now < upsTokenExpiry

\* C17: when the carrier rejects, for authentication, a tracking call that
\* carries the held token, the token is held no longer, so that the next
\* getUPSToken call makes a new exchange
C17_RejectedTokenDropped ==
    [][\A c \in Calls, out \in CarrierOutcomes :
          (out.status = 401 /\ TokenHeld # Null /\ trk[c].token = upsToken
              /\ CarrierResponse(c, out))
          => TokenHeld' = Null]_vars

\* some entry of the order's shipments array carries a tracking number
HasShipmentTracking(o) ==
    o.hasShipments /\ \E i \in 1..Len(o.shipments) : Truthy(o.shipments[i].trackingNumber)

\* the tracking number of the first entry that carries one
FirstShipmentTracking(o) ==
    LET i == CHOOSE k \in 1..Len(o.shipments) :
                /\ Truthy(o.shipments[k].trackingNumber)
                /\ \A j \in 1..(k - 1) : ~Truthy(o.shipments[j].trackingNumber)
    IN o.shipments[i].trackingNumber

\* C18: an order that has a tracking number in its shipments array and a
\* top-level tracking number is mapped to a row whose trackingNumber is the
\* one of the shipments array.
C18_ShipmentsValueWins ==
    (mapped.done /\ HasShipmentTracking(order) /\ Truthy(order.trackingNumber))
        => mapped.trackingNumber = FirstShipmentTracking(order)

\* C19: the mapped trackingNumber is the top-level one whenever the
\* shipments array carries none, it is "No Tracking" exactly when neither
\* carries one, and it is never undefined.
C19_CompleteFallback ==
    mapped.done =>
        /\ (~HasShipmentTracking(order) /\ Truthy(order.trackingNumber))
              => mapped.trackingNumber = order.trackingNumber
        /\ mapped.trackingNumber = NoTracking
              <=> (~HasShipmentTracking(order) /\ ~Truthy(order.trackingNumber))
        /\ mapped.trackingNumber # Undefined

\* the status texts that contain "delivered" in some mix of upper and lower case
DeliveredTexts == {"Delivered", "DELIVERED"}

\* C20: in the record trackUPS or parseUPSResponse makes of a carrier answer,
\* and in the record returned in its place when the call fails, delivered is
\* true exactly when the status text contains "delivered", whatever the case
\* of its letters.
C20_DeliveredIffStatusSaysSo ==
    parsed.done => (parsed.record.delivered <=> parsed.record.status \in DeliveredTexts)

\* an upper-case "DELIVERED" was parsed and flagged as delivered
C20_Witness ==
    /\ parsed.done
    /\ upsRes.kind = "ok"
    /\ parsed.record.status = "DELIVERED"
    /\ parsed.record.delivered

\* C21: whenever the page size in force is at least 1, the totalPages of a
\* read answer is ceil(total / limit), and 1 when total is 0.
C21_TotalPagesIsCeil ==
    (readRes.done /\ readRes.limit >= 1)
        => readRes.body.totalPages =
               IF readRes.body.total = 0 THEN 1
               ELSE CeilDiv(readRes.body.total, readRes.limit)

\* the value a query parameter stands for: its default when it is missing,
\* non-numeric or zero
QueryOr(v, d) == IF v = NaN \/ v = <<0>> THEN d ELSE v[1]

\* the rows of a list at the 1-based positions lo..hi that the list has
RowsAt(rows, lo, hi) ==
    LET a == Max(lo, 1)
        b == Min(hi, Len(rows))
    IN IF a <= b THEN SubSeq(rows, a, b) ELSE <<>>

\* C22: the data of GET /orders and GET /tracking of server.js and part_003
\* are the rows of the paged collection at positions (page-1)*limit+1 ..
\* page*limit, never more than limit rows, with page defaulting to 1 and
\* limit to 25.
C22_DataIsThePage ==
    (readRes.done /\ variant \in {"v8", "v5", "v10"}) =>
        LET page  == QueryOr(readReq.q.page, 1)
            limit == QueryOr(readReq.q.limit, 25)
        IN /\ readRes.body.data
                  = RowsAt(PagedRows(readReq), (page - 1) * limit + 1, page * limit)
           /\ Len(readRes.body.data) <= limit

\* C23: a step of the tracking call for T (its start, the answer to its
\* token exchange, the answer to its carrier request, successful or not)
\* leaves the cached record of every other tracking number as it was.
C23_OthersUntouched ==
    [][\A c \in Calls :
          (trk'[c] # trk[c] /\ trk'[c].pc # "idle")
          => \A n \in Keys : n # trk'[c].num => trackingCache'[n] = trackingCache[n]]_vars

\* trackUPS of part_006 has stored the record of one number while a record
\* stored earlier under another number is still there
C23_Witness ==
    \E c \in Calls, n \in Keys :
        /\ variant = "part_006"
        /\ trk[c].pc = "done"
        /\ trk[c].net # <<>>
        /\ n # trk[c].num
        /\ trackingCache[n].present
        /\ trackingCache[trk[c].num].present
        /\ trackingCache[trk[c].num].timestamp = now
        /\ trackingCache[n].timestamp < now

\* C24: a POST /track of part_005 whose body has no tracking number is
\* answered with a 4xx status, and the call issues no token exchange and no
\* carrier request.
C24_MissingNumberIs4xx ==
    \A c \in Calls :
        (variant = "part_005" /\ trk[c].pc # "idle" /\ trk[c].num = <<>>)
        => /\ trk[c].pc = "done"
           /\ trk[c].http \in 400..499
           /\ trk[c].net = <<>>

\* such a POST was answered while another tracking call was waiting for the carrier
C24_Witness ==
    \E c, d \in Calls :
        /\ variant = "part_005"
        /\ trk[c].pc = "done"
        /\ trk[c].num = <<>>
        /\ trk[c].http = 400
        /\ trk[d].pc = "carrier"

\* C25: a GET /orders or GET /tracking whose store read was rejected, or
\* that found no store connected, is still answered with status 200.
C25_StoreFailureNeverFailsRead ==
    \A r \in Runs :
        (/\ run[r].pc = "done"
         /\ run[r].kind \in ReadKinds
         /\ (~db \/ \E i \in 1..Len(run[r].got) : run[r].got[i] = -1))
        => run[r].resp.status = 200

\* the pass got no carrier data for the shipment: it has no tracking number,
\* or its tracking call was cut short or failed
NoCarrierData(sh) ==
    \/ SkipsCarrier(TrackingNumberOf(sh.tn))
    \/ ~IsCarrierNumber(TrackingNumberOf(sh.tn))
    \/ sh.ending.kind # "ok"

\* C26: when the pass got no carrier data for a shipment whose document an
\* earlier pass wrote, the upsert leaves status, location and eta of the
\* document as they were.
C26_CarrierFieldsPreserved ==
    (written.done /\ stored.doc.exists /\ NoCarrierData(stored))
        => /\ written.doc.status = stored.doc.status
           /\ written.doc.location = stored.doc.location
           /\ written.doc.eta = stored.doc.eta

\* C27: every request that awaits a refresh is answered in the end, and an
\* in-flight marker that is set is cleared in the end.
C27_EveryRefreshEnds ==
    /\ \A r \in Reqs : (req[r].pc = "await") ~> (req[r].pc = "done")
    /\ (inFlightOrders # Null) ~> (inFlightOrders = Null)

\* the refresh that request r started ended with a rejected page call
StartedRefreshFailed(r) ==
    /\ req[r].pc = "done"
    /\ req[r].started # Null
    /\ task[req[r].started].pc = "done"
    /\ task[req[r].started].got # <<>>
    /\ task[req[r].started].got[Len(task[req[r].started].got)] = -1

\* C28: when the refresh a request started has failed, ordersCache holds the
\* data and the fetchedAt it held when that request arrived, for GET /orders,
\* GET /tracking and POST /sync/orders alike.
C28_FailedRefreshKeepsCache ==
    \A r \in Reqs : StartedRefreshFailed(r) => ordersCache = req[r].cacheWas

\* a page call or a store call recorded in the history `got` was rejected
HadRejection(got) == \E i \in 1..Len(got) : got[i] = -1

\* C29: POST /sync/orders answers success TRUE exactly when the refresh or
\* the sync it ran had no rejected upstream or store call: a refresh that ends with
\* zero orders is a success and a failed one is not.
C29_SuccessIffNoError ==
    /\ \A r \in Reqs :
          (/\ SS_AUTH
           /\ req[r].pc = "done"
           /\ req[r].kind = "sync"
           /\ req[r].started # Null
           /\ task[req[r].started].pc = "done")
          => (req[r].resp.success <=> ~HadRejection(task[req[r].started].got))
    /\ \A r \in Runs :
          (run[r].pc = "done" /\ run[r].kind = "orders" /\ SS_AUTH)
          => (run[r].resp.success <=> ~(HadRejection(run[r].got) \/ run[r].commitFailed))

\* C30: where getUPSToken caches its token, tracking calls that run at the
\* same time while no unexpired token is cached share one token exchange:
\* no two calls are waiting for an exchange of their own.
C30_OneTokenExchange ==
    HasTokenCache =>
        \A c, d \in Calls :
            (trk[c].pc = "token" /\ trk[d].pc = "token") => c = d

====
